---- MODULE Spec2Model ----
(***************************************************************************)
(* Model of the YouTube Data MCP server (src/src/index.ts): the four tool  *)
(* handlers getTranscript, getVideoInfo, getReplies and getCommentReplies, *)
(* the data functions they call, the identifier resolver getVideoId and    *)
(* the page metadata extractor fetchBasicVideoInfo.                        *)
(*                                                                         *)
(* One invocation is in progress at a time (handlers share no state).      *)
(* Every await of the code is a step boundary: the action that issues a    *)
(* request appends it to `requests`, the action that receives the answer   *)
(* draws the answer from the sets of answers an upstream can give.         *)
(*                                                                         *)
(* Strings that the code inspects character by character (urls, sorting    *)
(* token titles) are sequences of one-character strings; strings the code  *)
(* only copies or tests for emptiness (tokens, ids, messages) are TLA+     *)
(* strings.  The JavaScript values undefined and null are the strings      *)
(* Undefined and Null.                                                     *)
(***************************************************************************)
EXTENDS Integers, Sequences, FiniteSets, TLC

VARIABLES SERPAPI_KEY, pc, tool, args, requests, videoId, videoInfo,
          tokenToUse, basicInfo, outcome

vars == <<SERPAPI_KEY, pc, tool, args, requests, videoId, videoInfo,
          tokenToUse, basicInfo, outcome>>

----------------------------------------------------------------------------
(* Bounds of the model *)

\* longest upstream comments / replies sequence
MaxComments == 2
\* longest upstream comments_sorting_token list
MaxSortingTokens == 2
\* largest small limit passed to getReplies (besides the default)
MaxLimit == 1

(* Program constants *)

\* limit: z.number().default(100)
DefaultLimit == 100
\* {11} in every identifier pattern
VideoIdLen == 11

Undefined == "<undefined>"
Null == "<null>"

\* JavaScript truthiness of a token-like value (string, undefined or null)
Truthy(x) == x /= Undefined /\ x /= Null /\ x /= ""

\* a || b on token-like values
OrElse(a, b) == IF Truthy(a) THEN a ELSE b

----------------------------------------------------------------------------
(* Character strings *)

Lower == <<"a", "b", "c", "d", "e", "f", "g", "h", "i", "j", "k", "l", "m",
           "n", "o", "p", "q", "r", "s", "t", "u", "v", "w", "x", "y", "z">>
Upper == <<"A", "B", "C", "D", "E", "F", "G", "H", "I", "J", "K", "L", "M",
           "N", "O", "P", "Q", "R", "S", "T", "U", "V", "W", "X", "Y", "Z">>
Digits == <<"0", "1", "2", "3", "4", "5", "6", "7", "8", "9">>

Range(s) == {s[i] : i \in 1..Len(s)}

\* the character class [a-zA-Z0-9_-]
IdChars == Range(Lower) \cup Range(Upper) \cup Range(Digits) \cup {"_", "-"}

\* String.prototype.toLowerCase on one character
LowerChar(c) ==
    IF c \in Range(Upper)
    THEN Lower[CHOOSE i \in 1..Len(Upper) : Upper[i] = c]
    ELSE c

toLowerCase(s) == [i \in 1..Len(s) |-> LowerChar(s[i])]

\* does `lit` occur in s starting at index i (1-based)
LitAt(s, i, lit) ==
    /\ i >= 1
    /\ i + Len(lit) - 1 <= Len(s)
    /\ \A k \in 1..Len(lit) : s[i + k - 1] = lit[k]

\* String.prototype.includes
includes(s, lit) == \E i \in 1..(Len(s) + 1) : LitAt(s, i, lit)

----------------------------------------------------------------------------
(* Identifier resolver: getVideoId *)

Https == <<"h", "t", "t", "p", "s", ":", "/", "/">>
Http == <<"h", "t", "t", "p", ":", "/", "/">>
Www == <<"w", "w", "w", ".">>
WatchLit == <<"y", "o", "u", "t", "u", "b", "e", ".", "c", "o", "m", "/",
              "w", "a", "t", "c", "h", "?", "v", "=">>
EmbedLit == <<"y", "o", "u", "t", "u", "b", "e", ".", "c", "o", "m", "/",
              "e", "m", "b", "e", "d", "/">>
VLit == <<"y", "o", "u", "t", "u", "b", "e", ".", "c", "o", "m", "/", "v", "/">>
ShortLit == <<"y", "o", "u", "t", "u", ".", "b", "e", "/">>
ShortsLit == <<"y", "o", "u", "t", "u", "b", "e", ".", "c", "o", "m", "/",
               "s", "h", "o", "r", "t", "s", "/">>

\* the five url patterns, in the order the loop tries them
patterns == <<WatchLit, EmbedLit, VLit, ShortLit, ShortsLit>>

\* [a-zA-Z0-9_-]{11} at index i
IdAt(s, i) ==
    /\ i >= 1
    /\ i + VideoIdLen - 1 <= Len(s)
    /\ \A k \in 0..(VideoIdLen - 1) : s[i + k] \in IdChars

\* /^[a-zA-Z0-9_-]{11}$/.test(s)
IsBareId(s) == Len(s) = VideoIdLen /\ IdAt(s, 1)

\* lengths the group (?:https?:\/\/)? can consume at i, greedy choice first
SchemeLens(s, i) ==
    (IF LitAt(s, i, Https) THEN <<Len(Https)>>
     ELSE IF LitAt(s, i, Http) THEN <<Len(Http)>> ELSE <<>>) \o <<0>>

\* lengths the group (?:www\.)? can consume at i, greedy choice first
WwwLens(s, i) == (IF LitAt(s, i, Www) THEN <<Len(Www)>> ELSE <<>>) \o <<0>>

\* the index of the capture group for each way the pattern matches at start
\* index i, in the backtracking order of the regular expression engine
CapturesAt(s, i, lit) ==
    LET sch == SchemeLens(s, i)
        one(a) == LET w == WwwLens(s, i + a)
                      try(b) == IF /\ LitAt(s, i + a + b, lit)
                                   /\ IdAt(s, i + a + b + Len(lit))
                                THEN <<i + a + b + Len(lit)>> ELSE <<>>
                  IN  IF Len(w) = 2 THEN try(w[1]) \o try(w[2]) ELSE try(w[1])
    IN  IF Len(sch) = 2 THEN one(sch[1]) \o one(sch[2]) ELSE one(sch[1])

\* the resolver's null: no identifier (an identifier has VideoIdLen characters)
NoId == <<>>

\* match[1] of urlOrId.match(pattern): the capture of the leftmost match,
\* or NoId when the pattern matches nowhere
MatchCapture(s, lit) ==
    LET starts == {i \in 1..Len(s) : CapturesAt(s, i, lit) /= <<>>}
    IN  IF starts = {} THEN NoId
        ELSE LET i == CHOOSE j \in starts : \A k \in starts : j <= k
                 c == CapturesAt(s, i, lit)[1]
             IN  SubSeq(s, c, c + VideoIdLen - 1)

RECURSIVE FirstPattern(_, _)
FirstPattern(s, n) ==
    IF n > Len(patterns) THEN NoId
    ELSE LET m == MatchCapture(s, patterns[n])
         IN  IF m /= NoId THEN m ELSE FirstPattern(s, n + 1)

\* getVideoId without the bare-identifier test of its first lines
getVideoIdPatternsOnly(urlOrId) == FirstPattern(urlOrId, 1)

getVideoId(urlOrId) ==
    IF IsBareId(urlOrId) THEN urlOrId ELSE FirstPattern(urlOrId, 1)

----------------------------------------------------------------------------
(* Inputs of the tools *)

None == <<>>
Some(x) == <<x>>

SeqsUpTo(S, n) == UNION {[1..k -> S] : k \in 0..n}

IdRick == <<"d", "Q", "w", "4", "w", "9", "W", "g", "X", "c", "Q">>
IdMixed == <<"a", "b", "c", "_", "D", "E", "F", "-", "1", "2", "3">>
IdShort == <<"a", "b", "c", "1", "2", "3", "4", "5", "6", "7">>
IdLong == <<"a", "b", "c", "1", "2", "3", "4", "5", "6", "7", "8", "9">>
IdBang == <<"a", "b", "c", "!", "2", "3", "4", "5", "6", "7", "8">>
Example == <<"e", "x", "a", "m", "p", "l", "e", ".", "c", "o", "m", "/">>
TimeSuffix == <<"&", "t", "=", "1">>

\* bare identifiers, the five url shapes with and without scheme and www.,
\* and strings no pattern accepts
Urls ==
    {<<>>, IdRick, IdMixed, IdShort, IdLong, IdBang}
    \cup {Https \o Www \o patterns[n] \o IdMixed : n \in 1..Len(patterns)}
    \cup {Http \o WatchLit \o IdRick \o TimeSuffix, ShortLit \o IdLong,
          Www \o EmbedLit \o IdRick}
    \cup {Https \o Www \o patterns[n] \o IdShort : n \in {1, 4}}
    \cup {Https \o Example \o IdRick, Https \o Www \o WatchLit \o IdBang}

\* the url argument of getReplies is optional
OptionalUrls == {None} \cup {Some(u) : u \in Urls}

Langs == {"en", "ko"}
Sorts == {"relevance", "time"}
Limits == {-1} \cup (0..MaxLimit) \cup {DefaultLimit}
PageTokens == {Undefined, "", "P1"}

\* process.env.SERPAPI_KEY
ApiKeys == {Undefined, "", "key"}

ToolNames == {"getTranscript", "getVideoInfo", "getReplies", "getCommentReplies"}

----------------------------------------------------------------------------
(* Answers of the upstreams *)

\* reply of a request: still pending, the transport failed (fetch rejects),
\* or an HTTP response with its status and body text
Pending == [kind |-> "pending", status |-> 0, text |-> ""]
Rejected == [kind |-> "reject", status |-> 0, text |-> ""]
Http200 == [kind |-> "http", status |-> 200, text |-> ""]
HttpErrors == {[kind |-> "http", status |-> s, text |-> b] :
                  s \in {400, 500}, b \in {"", "quota"}}

\* response.ok
ok(reply) == reply.kind = "http" /\ reply.status >= 200 /\ reply.status <= 299

TopTitle == <<"T", "o", "p", " ", "c", "o", "m", "m", "e", "n", "t", "s">>
NewestTitle == <<"N", "e", "w", "e", "s", "t", " ", "f", "i", "r", "s", "t">>
UpperTitle == <<"N", "E", "W", "E", "S", "T">>
newest == <<"n", "e", "w", "e", "s", "t">>

SortingEntries ==
    {[title |-> TopTitle, token |-> "A"],
     [title |-> NewestTitle, token |-> "B"],
     [title |-> UpperTitle, token |-> ""]}

SortingLists == {None} \cup {Some(l) : l \in SeqsUpTo(SortingEntries, MaxSortingTokens)}

\* JSON bodies that are not objects: response.json() yields the value (or
\* throws for "invalid"), and every property read of it is undefined
NonObjectTypes == {"null", "number", "string", "array", "invalid"}

InfoBody(type, meta, token, sorting) ==
    [type |-> type,
     title |-> IF meta THEN "Title" ELSE Undefined,
     views |-> IF meta THEN "1,234" ELSE Undefined,
     published_date |-> IF meta THEN "Jan 1, 2024" ELSE Undefined,
     channel_name |-> IF meta THEN "Channel" ELSE Undefined,
     extracted_comment_count |-> IF meta THEN "7" ELSE Undefined,
     comments_next_page_token |-> token,
     comments_sorting_token |-> sorting]

InfoBodies ==
    {InfoBody("object", FALSE, t, s) : t \in {Undefined, "D"}, s \in SortingLists}
    \cup {InfoBody("object", TRUE, "D", None), InfoBody("object", FALSE, "", None)}
    \cup {InfoBody(ty, FALSE, Undefined, None) : ty \in NonObjectTypes}

CommentEntry(id, name, content, votes, count, token) ==
    [comment_id |-> id, channel_name |-> name, content |-> content,
     published_date |-> Undefined, extracted_vote_count |-> votes,
     replies_count |-> count, replies_next_page_token |-> token]

CommentEntries ==
    {CommentEntry("c1", "Ann", "hi", 3, 2, "R1"),
     CommentEntry("c2", Undefined, Undefined, 0, 0, ""),
     CommentEntry("c3", "Bob", "yo", 1, 0, Undefined)}

\* an array element that is null instead of an entry object
NullEntry == [isNull |-> TRUE]

\* a comments / replies array holding a null element
NullEntryField == [kind |-> "array", items |-> <<NullEntry>>]

\* the comments / replies field: absent, a non-array value, or an array
EntryFields ==
    {[kind |-> k, items |-> <<>>] : k \in {"undefined", "string"}}
    \cup {[kind |-> "array", items |-> l] : l \in SeqsUpTo(CommentEntries, MaxComments)}

PageBody(type, vid, entries, token) ==
    [type |-> type, video_id |-> vid,
     title |-> IF vid = NoId THEN Undefined ELSE "Title",
     comments |-> entries, comments_next_page_token |-> token]

PageBodies ==
    {PageBody("object", NoId, e, t) : e \in EntryFields, t \in {Undefined, "N1"}}
    \cup {PageBody("object", IdRick, [kind |-> "array", items |-> <<>>], "N1"),
          PageBody("object", NoId, [kind |-> "array", items |-> <<>>], ""),
          PageBody("object", NoId, NullEntryField, Undefined)}
    \cup {PageBody(ty, NoId, [kind |-> "undefined", items |-> <<>>], Undefined) :
             ty \in NonObjectTypes}

RepliesBody(type, parent, entries, token) ==
    [type |-> type, comment_parent_id |-> parent, replies |-> entries,
     replies_next_page_token |-> token]

RepliesBodies ==
    {RepliesBody("object", p, e, t) :
        p \in {Undefined, "c1"}, e \in EntryFields, t \in {Undefined, "N2"}}
    \cup {RepliesBody("object", "", [kind |-> "array", items |-> <<>>], ""),
          RepliesBody("object", Undefined, NullEntryField, Undefined)}
    \cup {RepliesBody(ty, Undefined, [kind |-> "undefined", items |-> <<>>], Undefined) :
             ty \in NonObjectTypes}

\* the watch page: for each of the four patterns, the captured text or
\* Undefined when the markup does not match
WatchPages ==
    {[title |-> t, channelName |-> c, publishedAt |-> Undefined, viewCount |-> v] :
        t \in {Undefined, "Title"}, c \in {Undefined, "Channel"}, v \in {Undefined, "42"}}
    \cup {[title |-> "Title", channelName |-> "Channel",
           publishedAt |-> "2024-01-01", viewCount |-> "42"]}

WatchErrors == {[kind |-> "http", status |-> s, text |-> ""] : s \in {404, 500}}

\* what YoutubeTranscript.fetchTranscript resolves to
Transcripts ==
    {<<>>, <<[text |-> "hello"]>>, <<[text |-> "hello"], [text |-> "world"]>>}

\* messages of the errors it rejects with
TranscriptErrors == {"Transcript is disabled on this video", ""}

----------------------------------------------------------------------------
(* Errors and step results *)

MsgInvalidReference == "Invalid YouTube URL or video ID"
MsgMissingCredential == "SERPAPI_KEY is not set in environment variables"
MsgInvalidArguments == "Either url or pageToken must be provided"
MsgNoCommentsToken == "Could not find valid comments token"
\* fetch rejects with a TypeError when the transport fails
MsgFetchFailed == "fetch failed"
\* response.json() rejects with a SyntaxError on a body that is not JSON
MsgSyntaxError == "Unexpected token < in JSON at position 0"
\* Object.keys(null) throws a TypeError
MsgKeysOfNull == "Cannot convert undefined or null to object"
\* comment.comment_id on a null array element throws a TypeError
MsgPropertyOfNull == "Cannot read properties of null (reading 'comment_id')"

\* `SerpAPI error: ${response.status} - ${errorText}`
SerpApiError(status, text) ==
    "SerpAPI error: " \o ToString(status) \o " - " \o text

NoValue == [none |-> TRUE]

\* the result of running a function up to its next await or to its end:
\* it threw, it returned a value, or it issued a request and awaits the reply
Thrown(message) == [step |-> "throw", message |-> message, value |-> NoValue]
Returned(value) == [step |-> "return", message |-> "", value |-> value]
Fetch(request) == [step |-> "fetch", message |-> "", value |-> request]

\* a request as the network sees it; reply and data (the body of a
\* successful reply) are filled in when it is answered
Request(dest, v, token, lang) ==
    [dest |-> dest,
     api_key |-> IF dest = "serpapi" THEN SERPAPI_KEY ELSE Undefined,
     engine |-> IF dest = "serpapi" THEN "youtube_video" ELSE Undefined,
     v |-> v, next_page_token |-> token, lang |-> lang, reply |-> Pending, data |-> NoValue]

\* the error that reading the JSON body of a successful response raises
\* (response.json(), then Object.keys(data)), or Undefined
JsonFault(body) ==
    IF body.type = "invalid" THEN MsgSyntaxError
    ELSE IF body.type = "null" THEN MsgKeysOfNull
    ELSE Undefined

----------------------------------------------------------------------------
(* getVideoInfoData *)

\* getVideoInfoData without the SERPAPI_KEY test
VideoInfoStartNoKeyTest(url) ==
    LET id == getVideoId(url)
    IN  IF id = NoId THEN Thrown(MsgInvalidReference)
        ELSE Fetch(Request("serpapi", id, Undefined, Undefined))

\* up to the fetch
VideoInfoStart(url) ==
    LET id == getVideoId(url)
    IN  IF id = NoId THEN Thrown(MsgInvalidReference)
        ELSE IF ~Truthy(SERPAPI_KEY) THEN Thrown(MsgMissingCredential)
        ELSE Fetch(Request("serpapi", id, Undefined, Undefined))

\* getVideoInfoData without the response.ok test
VideoInfoFinishIgnoringStatus(id, reply, data) ==
    IF reply.kind = "reject" THEN Thrown(MsgFetchFailed)
    ELSE IF JsonFault(data) /= Undefined THEN Thrown(JsonFault(data))
    ELSE Returned([videoId |-> id,
                   title |-> data.title,
                   viewCount |-> data.views,
                   publishDate |-> data.published_date,
                   channelName |-> data.channel_name,
                   commentCount |-> data.extracted_comment_count,
                   commentsNextPageToken |-> data.comments_next_page_token,
                   commentsSortingTokens |-> data.comments_sorting_token])

\* from the reply of the fetch to the end
VideoInfoFinish(id, reply, data) ==
    IF reply.kind = "reject" THEN Thrown(MsgFetchFailed)
    ELSE IF ~ok(reply) THEN Thrown(SerpApiError(reply.status, reply.text))
    ELSE IF JsonFault(data) /= Undefined THEN Thrown(JsonFault(data))
    ELSE Returned([videoId |-> id,
                   title |-> data.title,
                   viewCount |-> data.views,
                   publishDate |-> data.published_date,
                   channelName |-> data.channel_name,
                   commentCount |-> data.extracted_comment_count,
                   commentsNextPageToken |-> data.comments_next_page_token,
                   commentsSortingTokens |-> data.comments_sorting_token])

----------------------------------------------------------------------------
(* getCommentsData *)

Min(S) == CHOOSE x \in S : \A y \in S : x <= y

\* Array.prototype.find with the "newest" predicate: the first entry whose
\* lower-cased title includes "newest", as None or Some(entry)
findNewest(list) ==
    LET hits == {i \in 1..Len(list) : includes(toLowerCase(list[i].title), newest)}
    IN  IF hits = {} THEN None ELSE Some(list[Min(hits)])

\* the sort selection with a case-sensitive search for "newest"
SelectTokenCaseSensitive(info, sort) ==
    LET list == IF info.commentsSortingTokens = None THEN <<>>
                ELSE info.commentsSortingTokens[1]
        hits == {i \in 1..Len(list) : includes(list[i].title, newest)}
    IN  IF sort = "time" /\ hits /= {} THEN list[Min(hits)].token
        ELSE info.commentsNextPageToken

\* tokenToUse after the sort selection
SelectToken(info, sort) ==
    IF sort = "time" /\ info.commentsSortingTokens /= None
    THEN LET newestFirstToken == findNewest(info.commentsSortingTokens[1])
         IN  IF newestFirstToken /= None THEN newestFirstToken[1].token
             ELSE info.commentsNextPageToken
    ELSE info.commentsNextPageToken

\* getCommentsData that always starts from the url, pageToken or not
CommentsStartFromUrl(url, pageToken) ==
    IF ~Truthy(SERPAPI_KEY) THEN Thrown(MsgMissingCredential)
    ELSE IF getVideoId(url) = NoId THEN Thrown(MsgInvalidReference)
    ELSE VideoInfoStart(url)

\* up to the first fetch: the page request (pageToken given) or the
\* video-info request of getVideoInfoData({ url })
CommentsStart(url, pageToken) ==
    IF ~Truthy(SERPAPI_KEY) THEN Thrown(MsgMissingCredential)
    ELSE IF Truthy(pageToken)
    THEN Fetch(Request("serpapi", NoId, pageToken, Undefined))
    ELSE IF getVideoId(url) = NoId THEN Thrown(MsgInvalidReference)
    ELSE VideoInfoStart(url)

\* from the result of getVideoInfoData to the second fetch
CommentsSelect(info, sort) ==
    LET token == SelectToken(info, sort)
    IN  IF ~Truthy(token) THEN Thrown(MsgNoCommentsToken)
        ELSE Fetch(Request("serpapi", NoId, token, Undefined))

\* Array.prototype.slice(0, end)
Slice(items, end) ==
    LET e == IF end < 0 THEN (IF Len(items) + end < 0 THEN 0 ELSE Len(items) + end)
             ELSE IF end > Len(items) THEN Len(items) ELSE end
    IN  SubSeq(items, 1, e)

\* one entry of the comments page
MapComment(comment) ==
    [commentId |-> OrElse(comment.comment_id, ""),
     author |-> OrElse(comment.channel_name, "Anonymous"),
     text |-> OrElse(comment.content, ""),
     time |-> OrElse(comment.published_date, ""),
     likes |-> comment.extracted_vote_count,
     replies |-> comment.replies_count,
     repliesToken |-> OrElse(comment.replies_next_page_token, Null)]

\* from the reply of the page fetch to the end
CommentsFinish(extractedVideoId, limit, reply, data) ==
    IF reply.kind = "reject" THEN Thrown(MsgFetchFailed)
    ELSE IF ~ok(reply) THEN Thrown(SerpApiError(reply.status, reply.text))
    ELSE IF JsonFault(data) /= Undefined THEN Thrown(JsonFault(data))
    ELSE LET pageVideoId == IF data.video_id /= NoId THEN data.video_id
                            ELSE extractedVideoId
             nextPageToken == OrElse(data.comments_next_page_token, Undefined)
         IN  IF data.comments.kind /= "array"
             THEN Returned([videoId |-> pageVideoId, videoTitle |-> data.title,
                            comments |-> <<>>, commentCount |-> 0,
                            nextPageToken |-> nextPageToken])
             ELSE LET sliced == Slice(data.comments.items, limit)
                      comments == [i \in 1..Len(sliced) |-> MapComment(sliced[i])]
                  IN  IF \E i \in 1..Len(sliced) : sliced[i] = NullEntry
                      THEN Thrown(MsgPropertyOfNull)
                      ELSE
                      Returned([videoId |-> pageVideoId, videoTitle |-> data.title,
                                comments |-> comments,
                                commentCount |-> Len(comments),
                                nextPageToken |-> nextPageToken])

----------------------------------------------------------------------------
(* getRepliesData *)

RepliesStart(pageToken) ==
    IF ~Truthy(SERPAPI_KEY) THEN Thrown(MsgMissingCredential)
    ELSE Fetch(Request("serpapi", NoId, pageToken, Undefined))

MapReply(reply) ==
    [commentId |-> OrElse(reply.comment_id, ""),
     author |-> OrElse(reply.channel_name, "Anonymous"),
     text |-> OrElse(reply.content, ""),
     time |-> OrElse(reply.published_date, ""),
     likes |-> reply.extracted_vote_count]

RepliesFinish(reply, data) ==
    IF reply.kind = "reject" THEN Thrown(MsgFetchFailed)
    ELSE IF ~ok(reply) THEN Thrown(SerpApiError(reply.status, reply.text))
    ELSE IF JsonFault(data) /= Undefined THEN Thrown(JsonFault(data))
    ELSE LET parentCommentId == OrElse(data.comment_parent_id, "")
             nextPageToken == OrElse(data.replies_next_page_token, Undefined)
         IN  IF data.replies.kind /= "array"
             THEN Returned([parentCommentId |-> parentCommentId, replies |-> <<>>,
                            replyCount |-> 0, nextPageToken |-> nextPageToken])
             ELSE LET replies == [i \in 1..Len(data.replies.items) |->
                                     MapReply(data.replies.items[i])]
                  IN  IF \E i \in 1..Len(data.replies.items) :
                            data.replies.items[i] = NullEntry
                      THEN Thrown(MsgPropertyOfNull)
                      ELSE
                      Returned([parentCommentId |-> parentCommentId,
                                replies |-> replies, replyCount |-> Len(replies),
                                nextPageToken |-> nextPageToken])

----------------------------------------------------------------------------
(* fetchBasicVideoInfo and getTranscriptData *)

AllUndefined ==
    [title |-> Undefined, channelName |-> Undefined,
     publishedAt |-> Undefined, viewCount |-> Undefined]

\* fetchBasicVideoInfo without its catch block: failures propagate
fetchBasicVideoInfoThrowing(reply, html) ==
    IF reply.kind = "reject" THEN Thrown(MsgFetchFailed)
    ELSE IF ~ok(reply) THEN Thrown("HTTP error! status: " \o ToString(reply.status))
    ELSE Returned([title |-> html.title, channelName |-> html.channelName,
                   publishedAt |-> html.publishedAt, viewCount |-> html.viewCount])

\* from the reply of the watch-page GET to the end: the throw on a
\* non-success status and a rejected fetch both land in the catch block,
\* which returns the four fields undefined
fetchBasicVideoInfo(reply, html) ==
    IF reply.kind = "reject" THEN Returned(AllUndefined)
    ELSE IF ~ok(reply) THEN Returned(AllUndefined)
    ELSE Returned([title |-> html.title, channelName |-> html.channelName,
                   publishedAt |-> html.publishedAt, viewCount |-> html.viewCount])

\* up to the watch-page GET inside fetchBasicVideoInfo
TranscriptStart(url) ==
    LET id == getVideoId(url)
    IN  IF id = NoId THEN Thrown(MsgInvalidReference)
        ELSE Fetch(Request("youtube", id, Undefined, Undefined))

\* from the result of fetchBasicVideoInfo to the transcript fetch
TranscriptAfterInfo(id, lang, basic) ==
    IF basic.step = "throw" THEN basic
    ELSE Fetch(Request("transcript", id, Undefined, lang))

\* Array.prototype.join(" ") over the segment texts
RECURSIVE JoinTexts(_)
JoinTexts(segments) ==
    IF segments = <<>> THEN ""
    ELSE IF Len(segments) = 1 THEN segments[1].text
    ELSE segments[1].text \o " " \o JoinTexts(Tail(segments))

\* from the transcript to the end
TranscriptFinish(id, lang, info, transcript) ==
    Returned([videoInfo |-> [id |-> id, title |-> info.title,
                             channelName |-> info.channelName,
                             publishedAt |-> info.publishedAt,
                             viewCount |-> info.viewCount],
              transcript |-> transcript,
              fullText |-> JoinTexts(transcript),
              language |-> lang])

----------------------------------------------------------------------------
(* The tool handlers: what the host receives *)

NoOutcome == [status |-> "pending", kind |-> "", text |-> "", result |-> NoValue]

\* return { content: [{ type: "text", text: JSON.stringify(result, null, 2) }] }
HandlerReturn(result) ==
    [status |-> "returned", kind |-> "json", text |-> "", result |-> result]

\* a handler without the catch block: the fault reaches the host
HandlerRethrow(message) ==
    [status |-> "raised", kind |-> "", text |-> message, result |-> NoValue]

\* catch (error) { return { content: [{ type: "text", text: `Error: ...` }] } }
HandlerCatch(message) ==
    [status |-> "returned", kind |-> "message",
     text |-> "Error: " \o (IF message = "" THEN "Unknown error" ELSE message),
     result |-> NoValue]

\* the handler's try / catch around the data function
Respond(r) ==
    IF r.step = "throw" THEN HandlerCatch(r.message) ELSE HandlerReturn(r.value)

\* url || "" on the optional url of getReplies
UrlOrEmpty(u) == IF u = None THEN <<>> ELSE u[1]

\* !url
UrlFalsy(u) == u = None \/ u[1] = <<>>

\* the getReplies handler without its either-url-or-pageToken test
RepliesHandlerStartUnchecked(url, pageToken) ==
    CommentsStart(UrlOrEmpty(url), pageToken)

\* the getReplies handler up to the first fetch
RepliesHandlerStart(url, pageToken) ==
    IF UrlFalsy(url) /\ ~Truthy(pageToken) THEN Thrown(MsgInvalidArguments)
    ELSE CommentsStart(UrlOrEmpty(url), pageToken)

----------------------------------------------------------------------------
(* State machine *)

NoArgs ==
    [url |-> None, lang |-> Undefined, limit |-> DefaultLimit,
     sort |-> Undefined, pageToken |-> Undefined]

NoVideoInfo == NoValue

Init ==
    /\ SERPAPI_KEY \in ApiKeys
    /\ pc = "idle"
    /\ tool = "none"
    /\ args = NoArgs
    /\ requests = <<>>
    /\ videoId = NoId
    /\ videoInfo = NoVideoInfo
    /\ tokenToUse = Undefined
    /\ basicInfo = NoValue
    /\ outcome = NoOutcome

\* the requests log with the reply of the request in flight filled in
Answered(reply, data) ==
    [requests EXCEPT ![Len(requests)].reply = reply,
                     ![Len(requests)].data = IF ok(reply) THEN data ELSE NoValue]

\* run on from step result r: issue its request and wait at `next`, or
\* hand the result to the handler's return / catch
Continue(log, r, next) ==
    IF r.step = "fetch"
    THEN /\ requests' = Append(log, r.value)
         /\ pc' = next
         /\ outcome' = outcome
    ELSE /\ requests' = log
         /\ pc' = "done"
         /\ outcome' = Respond(r)

FailedReplies == {Rejected} \cup HttpErrors

CallGetVideoInfo ==
    /\ pc = "idle"
    /\ \E url \in Urls :
          /\ tool' = "getVideoInfo"
          /\ args' = [NoArgs EXCEPT !.url = Some(url)]
          /\ videoId' = getVideoId(url)
          /\ Continue(requests, VideoInfoStart(url), "awaitInfo")
    /\ UNCHANGED <<SERPAPI_KEY, videoInfo, tokenToUse, basicInfo>>

CallGetReplies ==
    /\ pc = "idle"
    /\ \E url \in OptionalUrls, limit \in Limits, sort \in Sorts,
          pageToken \in PageTokens :
          /\ tool' = "getReplies"
          /\ args' = [NoArgs EXCEPT !.url = url, !.limit = limit,
                                    !.sort = sort, !.pageToken = pageToken]
          /\ LET r == RepliesHandlerStart(url, pageToken)
             IN  /\ videoId' = IF r.step = "fetch" THEN r.value.v ELSE NoId
                 /\ Continue(requests, r,
                             IF r.step = "fetch" /\ r.value.v /= NoId
                             THEN "awaitInfo" ELSE "awaitPage")
    /\ UNCHANGED <<SERPAPI_KEY, videoInfo, tokenToUse, basicInfo>>

\* the video-info fetch is answered: getVideoInfoData ends; under getReplies
\* getCommentsData goes on to the sort selection and the page fetch
InfoReply ==
    /\ pc = "awaitInfo"
    /\ \E reply \in FailedReplies \cup {Http200}, data \in InfoBodies :
          /\ ok(reply) \/ data = InfoBody("null", FALSE, Undefined, None)
          /\ LET info == VideoInfoFinish(videoId, reply, data)
             IN  IF tool = "getVideoInfo" \/ info.step = "throw"
                 THEN /\ Continue(Answered(reply, data), info, "done")
                      /\ UNCHANGED <<videoInfo, tokenToUse>>
                 ELSE /\ videoInfo' = info.value
                      /\ tokenToUse' = SelectToken(info.value, args.sort)
                      /\ Continue(Answered(reply, data),
                                  CommentsSelect(info.value, args.sort), "awaitPage")
    /\ UNCHANGED <<SERPAPI_KEY, tool, args, videoId, basicInfo>>

PageReply ==
    /\ pc = "awaitPage"
    /\ \E reply \in FailedReplies \cup {Http200}, data \in PageBodies :
          /\ ok(reply) \/ data = PageBody("null", NoId, [kind |-> "undefined", items |-> <<>>], Undefined)
          /\ Continue(Answered(reply, data),
                      CommentsFinish(IF videoInfo = NoVideoInfo THEN <<>>
                                     ELSE videoInfo.videoId,
                                     args.limit, reply, data),
                      "done")
    /\ UNCHANGED <<SERPAPI_KEY, tool, args, videoId, videoInfo, tokenToUse, basicInfo>>

CallGetCommentReplies ==
    /\ pc = "idle"
    /\ \E pageToken \in PageTokens \ {Undefined} :
          /\ tool' = "getCommentReplies"
          /\ args' = [NoArgs EXCEPT !.pageToken = pageToken]
          /\ Continue(requests, RepliesStart(pageToken), "awaitReplies")
    /\ UNCHANGED <<SERPAPI_KEY, videoId, videoInfo, tokenToUse, basicInfo>>

RepliesReply ==
    /\ pc = "awaitReplies"
    /\ \E reply \in FailedReplies \cup {Http200}, data \in RepliesBodies :
          /\ ok(reply) \/ data = RepliesBody("null", Undefined, [kind |-> "undefined", items |-> <<>>], Undefined)
          /\ Continue(Answered(reply, data), RepliesFinish(reply, data), "done")
    /\ UNCHANGED <<SERPAPI_KEY, tool, args, videoId, videoInfo, tokenToUse, basicInfo>>

CallGetTranscript ==
    /\ pc = "idle"
    /\ \E url \in Urls, lang \in Langs :
          /\ tool' = "getTranscript"
          /\ args' = [NoArgs EXCEPT !.url = Some(url), !.lang = lang]
          /\ videoId' = getVideoId(url)
          /\ Continue(requests, TranscriptStart(url), "awaitWatch")
    /\ UNCHANGED <<SERPAPI_KEY, videoInfo, tokenToUse, basicInfo>>

\* the watch-page GET is answered: fetchBasicVideoInfo ends and
\* getTranscriptData goes on to the transcript fetch
WatchReply ==
    /\ pc = "awaitWatch"
    /\ \E reply \in {Rejected, Http200} \cup WatchErrors, html \in WatchPages :
          /\ ok(reply) \/ html = CHOOSE h \in WatchPages : h.publishedAt /= Undefined
          /\ LET basic == fetchBasicVideoInfo(reply, html)
             IN  /\ basicInfo' = IF basic.step = "return" THEN basic.value ELSE basicInfo
                 /\ Continue(Answered(reply, html),
                             TranscriptAfterInfo(videoId, args.lang, basic),
                             "awaitTranscript")
    /\ UNCHANGED <<SERPAPI_KEY, tool, args, videoId, videoInfo, tokenToUse>>

\* YoutubeTranscript.fetchTranscript resolves or rejects
TranscriptReply ==
    /\ pc = "awaitTranscript"
    /\ \/ \E transcript \in Transcripts :
             Continue(Answered(Http200, transcript),
                      TranscriptFinish(videoId, args.lang, basicInfo, transcript),
                      "done")
       \/ \E message \in TranscriptErrors :
             Continue(Answered(Rejected, NoValue), Thrown(message), "done")
    /\ UNCHANGED <<SERPAPI_KEY, tool, args, videoId, videoInfo, tokenToUse, basicInfo>>

\* the host has the payload; the next invocation starts from nothing
Return ==
    /\ pc = "done"
    /\ pc' = "idle"
    /\ tool' = "none"
    /\ args' = NoArgs
    /\ requests' = <<>>
    /\ videoId' = NoId
    /\ videoInfo' = NoVideoInfo
    /\ tokenToUse' = Undefined
    /\ basicInfo' = NoValue
    /\ outcome' = NoOutcome
    /\ UNCHANGED SERPAPI_KEY

Next ==
    \/ CallGetTranscript
    \/ WatchReply
    \/ TranscriptReply
    \/ CallGetVideoInfo
    \/ CallGetReplies
    \/ InfoReply
    \/ PageReply
    \/ CallGetCommentReplies
    \/ RepliesReply
    \/ Return

Spec == Init /\ [][Next]_vars

----------------------------------------------------------------------------
(* Vocabulary of the properties *)

Invoked == pc /= "idle"
Done == pc = "done"

\* the payload is the one-line error for `message`
IsError(message) ==
    /\ outcome.status = "returned"
    /\ outcome.kind = "message"
    /\ outcome.text = "Error: " \o message

\* the payload is the serialized result
IsSuccess == outcome.status = "returned" /\ outcome.kind = "json"

\* every message an error of the program can carry
UpstreamMessages ==
    {"SerpAPI error: " \o ToString(r.status) \o " - " \o r.text : r \in HttpErrors}
Messages ==
    {MsgInvalidReference, MsgMissingCredential, MsgInvalidArguments,
     MsgNoCommentsToken, MsgFetchFailed, MsgSyntaxError, MsgKeysOfNull,
     MsgPropertyOfNull,
     "Unknown error"}
    \cup UpstreamMessages \cup (TranscriptErrors \ {""})

KeyConfigured == SERPAPI_KEY /= Undefined /\ SERPAPI_KEY /= ""

\* the 11 characters of s are all of [a-zA-Z0-9_-]
ElevenIdChars(s) ==
    /\ Len(s) = 11
    /\ \A i \in 1..11 :
          s[i] \in {"a", "b", "c", "d", "g", "w", "D", "E", "F", "Q", "W", "X",
                    "1", "2", "3", "4", "5", "6", "7", "8", "9", "_", "-"}

\* the urls of the model that the resolver must reject: too short, too long
\* without a url shape, a disallowed character, a foreign host
Unresolvable ==
    {<<>>, IdShort, IdLong, IdBang, Https \o Example \o IdRick,
     Https \o Www \o WatchLit \o IdBang, Https \o Www \o WatchLit \o IdShort,
     Https \o Www \o ShortLit \o IdShort}

\* the url of the invocation, as the data function receives it
GivenUrl == UrlOrEmpty(args.url)

\* getReplies was called without a usable pageToken, with a url
RepliesByUrl ==
    tool = "getReplies" /\ ~Truthy(args.pageToken) /\ ~UrlFalsy(args.url)

\* getReplies was called with a pageToken
RepliesByToken == tool = "getReplies" /\ Truthy(args.pageToken)

----------------------------------------------------------------------------
(* C1: every invocation of the four tools ends with exactly one text       *)
(* payload handed to the host, the serialized result or a string           *)
(* "Error: <message>", whatever failed inside; no fault leaves a handler.  *)
C1_BoundaryNeverRaises ==
    /\ outcome.status /= "raised"
    /\ Done <=> outcome.status = "returned"
    /\ Done =>
          \/ outcome.kind = "json" /\ outcome.result /= NoValue
          \/ /\ outcome.kind = "message"
             /\ \E m \in Messages : outcome.text = "Error: " \o m
    /\ ~Done => outcome = NoOutcome

\* a malformed upstream body under getReplies ended as an error payload
C1_Witness ==
    /\ Done /\ tool = "getReplies"
    /\ Len(requests) = 2
    /\ IsError(MsgSyntaxError)

----------------------------------------------------------------------------
(* C2: pagination tokens pass through unchanged.  With a pageToken,        *)
(* getReplies and getCommentReplies issue one request whose                *)
(* next_page_token is that pageToken (getReplies then fetches no video     *)
(* info); without one, the page request of getReplies carries one of the   *)
(* tokens of the video-info response of the same invocation; and every     *)
(* nextPageToken / repliesToken of an output is the token received from    *)
(* upstream, or absent / null.                                             *)

\* the tokens a video-info body carries
TokensOfInfo(data) ==
    {data.comments_next_page_token}
    \cup (IF data.comments_sorting_token = None THEN {}
          ELSE {e.token : e \in Range(data.comments_sorting_token[1])})

C2_TokensPassThrough ==
    /\ (RepliesByToken \/ tool = "getCommentReplies") /\ requests /= <<>> =>
          /\ Len(requests) = 1
          /\ requests[1].next_page_token = args.pageToken
          /\ requests[1].v = NoId
          /\ videoId = NoId
          /\ videoInfo = NoVideoInfo
    /\ (RepliesByToken \/ tool = "getCommentReplies") /\ KeyConfigured /\ Invoked =>
          Len(requests) = 1
    /\ RepliesByUrl =>
          \A i \in 1..Len(requests) :
             requests[i].next_page_token /= Undefined =>
                /\ i = 2
                /\ ok(requests[1].reply)
                /\ requests[i].next_page_token \in TokensOfInfo(requests[1].data)
    /\ tool = "getReplies" /\ Done /\ IsSuccess =>
          LET data == requests[Len(requests)].data
              out == outcome.result
          IN  /\ out.nextPageToken \in {data.comments_next_page_token, Undefined}
              /\ data.comments_next_page_token \notin {Undefined, ""} =>
                    out.nextPageToken = data.comments_next_page_token
              /\ \A i \in 1..Len(out.comments) :
                    /\ out.comments[i].repliesToken
                          \in {data.comments.items[i].replies_next_page_token, Null}
                    /\ data.comments.items[i].replies_next_page_token
                          \notin {Undefined, ""} =>
                          out.comments[i].repliesToken
                             = data.comments.items[i].replies_next_page_token
    /\ tool = "getCommentReplies" /\ Done /\ IsSuccess =>
          LET data == requests[1].data
          IN  /\ outcome.result.nextPageToken
                    \in {data.replies_next_page_token, Undefined}
              /\ data.replies_next_page_token \notin {Undefined, ""} =>
                    outcome.result.nextPageToken = data.replies_next_page_token

\* getReplies with a pageToken and a resolvable url returned a page whose
\* tokens came from upstream
C2_Witness ==
    /\ Done /\ IsSuccess /\ RepliesByToken
    /\ getVideoId(GivenUrl) /= NoId
    /\ requests[1].next_page_token = "P1"
    /\ outcome.result.nextPageToken = "N1"
    /\ Len(outcome.result.comments) = 2
    /\ outcome.result.comments[1].repliesToken = "R1"
    /\ outcome.result.comments[2].repliesToken = Null

----------------------------------------------------------------------------
(* C3: getReplies with neither url nor pageToken (absent or empty) fails   *)
(* with the InvalidArguments error and issues no network request.          *)
C3_NeitherUrlNorToken ==
    tool = "getReplies" /\ UrlFalsy(args.url) /\ ~Truthy(args.pageToken) =>
       /\ Done
       /\ IsError(MsgInvalidArguments)
       /\ requests = <<>>

\* the empty url with the empty pageToken, the API key configured
C3_Witness ==
    /\ Done /\ tool = "getReplies" /\ KeyConfigured
    /\ args.url = Some(<<>>) /\ args.pageToken = ""
    /\ IsError(MsgInvalidArguments)

----------------------------------------------------------------------------
(* C4 as stated: with no API key, every invocation of getVideoInfo, of     *)
(* getReplies with a url or a pageToken, and of getCommentReplies ends in  *)
(* the MissingCredential error, no upstream request issued.                *)
NoKeyCase ==
    /\ ~KeyConfigured
    /\ \/ tool = "getVideoInfo"
       \/ tool = "getCommentReplies"
       \/ RepliesByUrl
       \/ RepliesByToken

C4_Original ==
    NoKeyCase => Done /\ IsError(MsgMissingCredential) /\ requests = <<>>

(* C4 as amended: with no API key, every such invocation ends in an error  *)
(* with no upstream request issued; the error is MissingCredential, except *)
(* for getVideoInfo with a url the resolver rejects, which is resolved     *)
(* first and fails with InvalidReference.                                  *)
C4_NoKeyNoRequest ==
    NoKeyCase =>
       /\ Done
       /\ requests = <<>>
       /\ IF tool = "getVideoInfo" /\ GivenUrl \in Unresolvable
          THEN IsError(MsgInvalidReference)
          ELSE IsError(MsgMissingCredential)

\* getVideoInfo of a resolvable url without a key
C4_Witness ==
    /\ Done /\ tool = "getVideoInfo" /\ SERPAPI_KEY = Undefined
    /\ GivenUrl = IdMixed
    /\ IsError(MsgMissingCredential)

----------------------------------------------------------------------------
(* C5 as stated: when the resolver rejects the supplied url (for           *)
(* getReplies: no pageToken), getVideoInfo, getTranscript and getReplies   *)
(* fail with InvalidReference and issue no request; and the resolver       *)
(* returns every string of 11 characters of [a-zA-Z0-9_-] unchanged.       *)
ResolverRejects ==
    /\ tool \in {"getVideoInfo", "getTranscript"} \/ RepliesByUrl
    /\ GivenUrl \in Unresolvable

\* the resolver ran on the url of this invocation
Resolved ==
    \/ tool \in {"getVideoInfo", "getTranscript"}
    \/ RepliesByUrl /\ KeyConfigured

C5_Original ==
    /\ ResolverRejects => Done /\ IsError(MsgInvalidReference) /\ requests = <<>>
    /\ Invoked /\ Resolved /\ ElevenIdChars(GivenUrl) => videoId = GivenUrl

(* C5 as amended: the same, except that getReplies tests the API key       *)
(* before it resolves the url: without a key it fails with                 *)
(* MissingCredential (still without any request), with a key it fails with *)
(* InvalidReference.                                                       *)
C5_ResolverRejects ==
    /\ ResolverRejects =>
          /\ Done
          /\ requests = <<>>
          /\ videoId = NoId
          /\ IF tool = "getReplies" /\ ~KeyConfigured
             THEN IsError(MsgMissingCredential)
             ELSE IsError(MsgInvalidReference)
    /\ Invoked /\ Resolved /\ ElevenIdChars(GivenUrl) =>
          /\ videoId = GivenUrl
          /\ requests /= <<>> => requests[1].v = GivenUrl
          /\ ~IsError(MsgInvalidReference)

\* getReplies with a key and a url of ten identifier characters
C5_Witness ==
    /\ Done /\ RepliesByUrl /\ KeyConfigured
    /\ GivenUrl = IdShort
    /\ IsError(MsgInvalidReference)

----------------------------------------------------------------------------
(* C6: sort-token selection of getReplies on the url path.  With           *)
(* sort = "time" and a sorting-token list with an entry whose title        *)
(* contains "newest" in any letter case, the page request uses the token   *)
(* of the first such entry; with sort = "time" and no such entry or no     *)
(* list, and with sort = "relevance" whatever the list, it uses the        *)
(* default commentsNextPageToken.                                          *)

\* the titles of the model that contain "newest" in some letter case
NewestTitles == {NewestTitle, UpperTitle}

C6_SortTokenSelection ==
    tool = "getReplies" /\ videoInfo /= NoVideoInfo =>
       LET list == IF videoInfo.commentsSortingTokens = None THEN <<>>
                   ELSE videoInfo.commentsSortingTokens[1]
           hits == {i \in 1..Len(list) : list[i].title \in NewestTitles}
           expected == IF args.sort = "time" /\ hits /= {}
                       THEN list[Min(hits)].token
                       ELSE videoInfo.commentsNextPageToken
       IN  /\ tokenToUse = expected
           /\ Truthy(expected) =>
                 /\ Len(requests) = 2
                 /\ requests[2].next_page_token = expected
           /\ ~Truthy(expected) => Len(requests) = 1

\* "Top comments" / A before "Newest first" / B with sort = "time": the page
\* request carries B, not the default token D
C6_Witness ==
    /\ RepliesByUrl /\ args.sort = "time" /\ Len(requests) = 2
    /\ videoInfo.commentsNextPageToken = "D"
    /\ videoInfo.commentsSortingTokens
          = Some(<<[title |-> TopTitle, token |-> "A"],
                   [title |-> NewestTitle, token |-> "B"]>>)
    /\ requests[2].next_page_token = "B"

----------------------------------------------------------------------------
(* C7: the comments-page mapping truncates to the limit: for every         *)
(* upstream comments sequence and every limit getReplies accepts, the      *)
(* output comments are a prefix of the upstream sequence in its order,     *)
(* exactly min(limit, upstream length) of them, and commentCount is their  *)
(* number.                                                                 *)
PrefixOfUpstream(out, up) ==
    /\ Len(out.comments) <= Len(up)
    /\ \A i \in 1..Len(out.comments) : out.comments[i].commentId = up[i].comment_id
    /\ out.commentCount = Len(out.comments)

C7_TruncatesToLimit ==
    tool = "getReplies" /\ Done /\ IsSuccess
    /\ requests[Len(requests)].data.comments.kind = "array" =>
       LET up == requests[Len(requests)].data.comments.items
           out == outcome.result
       IN  /\ PrefixOfUpstream(out, up)
           /\ Len(out.comments) <= args.limit
           /\ Len(out.comments)
                 = IF args.limit < Len(up) THEN args.limit ELSE Len(up)

\* the same for the limits that are counts: zero and the positive integers
C7_NonNegativeLimit ==
    tool = "getReplies" /\ Done /\ IsSuccess /\ args.limit >= 0
    /\ requests[Len(requests)].data.comments.kind = "array" =>
       LET up == requests[Len(requests)].data.comments.items
           out == outcome.result
       IN  /\ PrefixOfUpstream(out, up)
           /\ Len(out.comments)
                 = IF args.limit < Len(up) THEN args.limit ELSE Len(up)

----------------------------------------------------------------------------
(* C8 as stated: when the watch-page GET returns a non-success status or   *)
(* the transport fails, the failure propagates and getTranscript reports   *)
(* an error instead of a TranscriptResult.                                 *)
WatchFailed ==
    /\ tool = "getTranscript"
    /\ requests /= <<>>
    /\ requests[1].reply /= Pending
    /\ ~ok(requests[1].reply)

----------------------------------------------------------------------------
(* C9: getCommentReplies invoked with the empty string as pageToken fails  *)
(* with an input-validation error and issues no upstream request.          *)
C9_EmptyTokenRejected ==
    tool = "getCommentReplies" /\ args.pageToken = "" =>
       /\ Done
       /\ outcome.kind = "message"
       /\ requests = <<>>

----------------------------------------------------------------------------
(* C10: request count and order, no retry.  getVideoInfo,                  *)
(* getCommentReplies and getReplies with a pageToken issue exactly one     *)
(* upstream request per invocation that gets as far as the upstream;       *)
(* getReplies with a url issues the video-info request (v = id) first and  *)
(* the page request (next_page_token) only after its answer, two at most;  *)
(* a non-success status ends the invocation with the UpstreamError of      *)
(* that status and body, and nothing is requested after it.                *)
ReachesUpstream ==
    /\ ~IsError(MsgInvalidReference)
    /\ ~IsError(MsgMissingCredential)
    /\ ~IsError(MsgInvalidArguments)

IsInfoRequest(r) ==
    r.dest = "serpapi" /\ r.v = videoId /\ r.v /= NoId /\ r.next_page_token = Undefined

IsPageRequest(r) ==
    r.dest = "serpapi" /\ r.v = NoId /\ r.next_page_token /= Undefined

C10_RequestCountAndOrder ==
    tool \in {"getVideoInfo", "getReplies", "getCommentReplies"} =>
       /\ \A i \in 1..(Len(requests) - 1) : ok(requests[i].reply)
       /\ requests /= <<>> =>
             (requests[Len(requests)].reply = Pending <=> ~Done)
       /\ tool = "getVideoInfo" =>
             /\ Len(requests) <= 1
             /\ \A i \in 1..Len(requests) : IsInfoRequest(requests[i])
             /\ Done /\ ReachesUpstream => Len(requests) = 1
       /\ tool = "getCommentReplies" \/ RepliesByToken =>
             /\ Len(requests) <= 1
             /\ \A i \in 1..Len(requests) : IsPageRequest(requests[i])
             /\ Done /\ ReachesUpstream => Len(requests) = 1
       /\ RepliesByUrl =>
             /\ Len(requests) <= 2
             /\ Len(requests) >= 1 => IsInfoRequest(requests[1])
             /\ Len(requests) = 2 => IsPageRequest(requests[2])
             /\ Done /\ ReachesUpstream => Len(requests) >= 1
       /\ \A i \in 1..Len(requests) :
             requests[i].reply.kind = "http" /\ ~ok(requests[i].reply) =>
                /\ i = Len(requests)
                /\ Done
                /\ outcome.kind = "message"
                /\ outcome.text
                      = "Error: SerpAPI error: "
                           \o ToString(requests[i].reply.status)
                           \o " - " \o requests[i].reply.text

\* getReplies by url: the video info arrived, the page request answered 500
C10_Witness ==
    /\ RepliesByUrl /\ Done /\ Len(requests) = 2
    /\ requests[1].reply.status = 200
    /\ requests[2].reply.status = 500
    /\ requests[2].reply.text = "quota"
    /\ outcome.text = "Error: SerpAPI error: 500 - quota"

----------------------------------------------------------------------------
(* C11: response normalization is total on objects and rejects             *)
(* non-objects.  For every successful upstream response whose JSON body is *)
(* an object, the video-info, comments-page and replies-page mappings      *)
(* produce a result without failing (an absent or non-sequence comments /  *)
(* replies field yields an empty page with count 0); for every successful  *)
(* upstream response whose JSON body is null, a number, a string or an     *)
(* array, the operation reports an error instead of a success payload.     *)

\* request i was answered successfully with a JSON body of one of `types`
BodyIs(i, types) ==
    /\ i <= Len(requests)
    /\ requests[i].dest = "serpapi"
    /\ ok(requests[i].reply)
    /\ requests[i].data.type \in types

\* the request whose body the final mapping of the invocation reads
Last == Len(requests)

\* the last request is the video-info request of getVideoInfo
InfoIsLast == tool = "getVideoInfo" /\ Last = 1

\* the last request is the page request of getReplies
PageIsLast ==
    tool = "getReplies" /\ Last >= 1 /\ requests[Last].next_page_token /= Undefined

\* the last request is the request of getCommentReplies
RepliesIsLast == tool = "getCommentReplies" /\ Last = 1

C11_TotalOnObjects ==
    /\ InfoIsLast /\ Done /\ BodyIs(1, {"object"}) => IsSuccess
    /\ RepliesByUrl /\ BodyIs(1, {"object"}) =>
          /\ videoInfo /= NoVideoInfo
          /\ videoInfo.commentsNextPageToken = requests[1].data.comments_next_page_token
    /\ PageIsLast /\ Done /\ BodyIs(Last, {"object"}) =>
          /\ IsSuccess
          /\ requests[Last].data.comments.kind /= "array" =>
                outcome.result.comments = <<>> /\ outcome.result.commentCount = 0
    /\ RepliesIsLast /\ Done /\ BodyIs(1, {"object"}) =>
          /\ IsSuccess
          /\ requests[1].data.replies.kind /= "array" =>
                outcome.result.replies = <<>> /\ outcome.result.replyCount = 0

NonObjects == {"null", "number", "string", "array"}

C11_RejectsNonObjects ==
    /\ (InfoIsLast \/ PageIsLast \/ RepliesIsLast) /\ Done /\ BodyIs(Last, NonObjects) =>
          outcome.kind = "message"
    /\ RepliesByUrl /\ BodyIs(1, NonObjects) =>
          Done /\ Last = 1 /\ outcome.kind = "message" /\ videoInfo = NoVideoInfo

C11_Normalization == C11_TotalOnObjects /\ C11_RejectsNonObjects

\* what the code does: an object body fails only on a null array element
\* that survives the slice; of the non-objects only null is rejected
C11_TotalButForNullElements ==
    /\ InfoIsLast /\ Done /\ BodyIs(1, {"object"}) => IsSuccess
    /\ PageIsLast /\ Done /\ BodyIs(Last, {"object"}) =>
          IF requests[Last].data.comments = NullEntryField /\ args.limit >= 1
          THEN IsError(MsgPropertyOfNull) ELSE IsSuccess
    /\ RepliesIsLast /\ Done /\ BodyIs(1, {"object"}) =>
          IF requests[1].data.replies = NullEntryField
          THEN IsError(MsgPropertyOfNull) ELSE IsSuccess
    /\ (InfoIsLast \/ PageIsLast \/ RepliesIsLast) /\ Done /\ BodyIs(Last, {"null"}) =>
          IsError(MsgKeysOfNull)
    /\ (InfoIsLast \/ PageIsLast \/ RepliesIsLast) /\ Done
       /\ BodyIs(Last, {"number", "string", "array"}) => IsSuccess

====
